---- MODULE Spec2Model ----
(***************************************************************************)
(* The DeepL plugin (src/src/lib.rs): DeepL::search parses a query of the  *)
(* form "<target>: <text>" or "<source> -> <target>: <text>", posts one    *)
(* translation request and formats each translation as a search result    *)
(* whose extra info is the clipboard text.                                 *)
(*                                                                         *)
(* A Rust string is modelled as the sequence of its characters, each a     *)
(* one-character string, so that split, trim, to_lowercase and format! are *)
(* computed and not assumed.                                               *)
(***************************************************************************)
EXTENDS Naturals, Sequences, FiniteSets

VARIABLES
    config,     \* DeepL.config: the four entries, each an Option (None: no entry)
    loaded,     \* whether the host has called lazy_load_config
    query,      \* the query string the host passed to search
    returned,   \* whether search has run
    res,        \* the RVec<SearchResult> search returned
    log,        \* what search wrote to DeepL.logger, in order
    request,    \* the TranslateRequest search built, an Option
    sent,       \* the HTTP requests search issued through DeepL.client, in order
    reply,      \* what came back for the request, an Option: None when nothing was sent
    token,      \* the &str a direct call of TargetLanguageCode::guess_from_str is given
    guessed     \* that call's return value, wrapped in an Option: None before the call

vars == <<config, loaded, query, returned, res, log, request, sent, reply,
          token, guessed>>

\* Option<T>: None is the empty sequence, Some(x) the sequence of x alone.
None == <<>>
Some(x) == <<x>>
\* Option::unwrap
unwrap(opt) == opt[1]
\* Option::unwrap_or
unwrap_or(opt, default) == IF opt = None THEN default ELSE opt[1]

(***************************************************************************)
(* Bounds of the model.                                                    *)
(***************************************************************************)
\* The code spec of a query has at most MaxSegments segments between arrows.
MaxSegments == 3
\* A decoded response carries at most MaxItems translations.
MaxItems == 2

(***************************************************************************)
(* Strings.                                                                *)
(***************************************************************************)
\* char::is_whitespace, on the characters the model uses.
IsWhitespace(c) == c \in {" ", "\t", "\n", "\r"}

RECURSIVE TrimStart(_)
\* str::trim_start
TrimStart(s) ==
    IF s = <<>> THEN s
    ELSE IF IsWhitespace(Head(s)) THEN TrimStart(Tail(s)) ELSE s

RECURSIVE TrimEnd(_)
\* str::trim_end
TrimEnd(s) ==
    IF s = <<>> THEN s
    ELSE IF IsWhitespace(s[Len(s)]) THEN TrimEnd(SubSeq(s, 1, Len(s) - 1)) ELSE s

\* str::trim: leading and trailing whitespace removed.
trim(s) == TrimEnd(TrimStart(s))

UpperCase ==
    <<"A", "B", "C", "D", "E", "F", "G", "H", "I", "J", "K", "L", "M",
      "N", "O", "P", "Q", "R", "S", "T", "U", "V", "W", "X", "Y", "Z">>

LowerCase ==
    <<"a", "b", "c", "d", "e", "f", "g", "h", "i", "j", "k", "l", "m",
      "n", "o", "p", "q", "r", "s", "t", "u", "v", "w", "x", "y", "z">>

\* char::to_lowercase, on ASCII letters; every other character is itself.
LowerChar(c) ==
    IF \E i \in 1..Len(UpperCase) : UpperCase[i] = c
    THEN LowerCase[CHOOSE i \in 1..Len(UpperCase) : UpperCase[i] = c]
    ELSE c

\* str::to_lowercase
to_lowercase(s) == [i \in 1..Len(s) |-> LowerChar(s[i])]

\* str::starts_with
StartsWith(s, pat) == Len(pat) <= Len(s) /\ SubSeq(s, 1, Len(pat)) = pat

RECURSIVE SplitFrom(_, _, _)
\* The parts of cur \o s, cur holding no match of pat: matches are taken left
\* to right and do not overlap.
SplitFrom(s, pat, cur) ==
    IF s = <<>> THEN <<cur>>
    ELSE IF StartsWith(s, pat)
         THEN <<cur>> \o SplitFrom(SubSeq(s, Len(pat) + 1, Len(s)), pat, <<>>)
         ELSE SplitFrom(Tail(s), pat, Append(cur, Head(s)))

\* str::split(pat), collected: at least one part, also for the empty string.
split(s, pat) == SplitFrom(s, pat, <<>>)

RECURSIVE join(_, _)
\* [String]::join(sep)
join(parts, sep) ==
    IF parts = <<>> THEN <<>>
    ELSE IF Len(parts) = 1 THEN parts[1]
    ELSE parts[1] \o sep \o join(Tail(parts), sep)

(***************************************************************************)
(* The language code tables.                                               *)
(***************************************************************************)
\* enum SourceLanguageCode: the variants, by name.
SourceLanguageCode ==
    {"AR", "BG", "CS", "DA", "DE", "EL", "EN", "ES", "ET", "FI", "FR", "HU", "ID", "IT", "JA", "KO", "LT", "LV", "NB", "NL", "PL", "PT", "RO", "RU", "SK", "SL", "SV", "TR", "UK", "ZH"}

\* enum TargetLanguageCode: the variants, by name.
TargetLanguageCode ==
    {"AR", "BG", "CS", "DA", "DE", "EL", "EN", "EnGb", "EnUs", "ES", "ET", "FI", "FR", "HU", "ID", "IT", "JA", "KO", "LT", "LV", "NB", "NL", "PL", "PT", "PtBr", "PtPt", "RO", "RU", "SK", "SL", "SV", "TR", "UK", "ZH"}

\* serde name of a SourceLanguageCode variant (derive(Serialize, Deserialize)).
SourceLanguageCode_wire(code) ==
    CASE code = "AR" -> <<"A", "R">>
      [] code = "BG" -> <<"B", "G">>
      [] code = "CS" -> <<"C", "S">>
      [] code = "DA" -> <<"D", "A">>
      [] code = "DE" -> <<"D", "E">>
      [] code = "EL" -> <<"E", "L">>
      [] code = "EN" -> <<"E", "N">>
      [] code = "ES" -> <<"E", "S">>
      [] code = "ET" -> <<"E", "T">>
      [] code = "FI" -> <<"F", "I">>
      [] code = "FR" -> <<"F", "R">>
      [] code = "HU" -> <<"H", "U">>
      [] code = "ID" -> <<"I", "D">>
      [] code = "IT" -> <<"I", "T">>
      [] code = "JA" -> <<"J", "A">>
      [] code = "KO" -> <<"K", "O">>
      [] code = "LT" -> <<"L", "T">>
      [] code = "LV" -> <<"L", "V">>
      [] code = "NB" -> <<"N", "B">>
      [] code = "NL" -> <<"N", "L">>
      [] code = "PL" -> <<"P", "L">>
      [] code = "PT" -> <<"P", "T">>
      [] code = "RO" -> <<"R", "O">>
      [] code = "RU" -> <<"R", "U">>
      [] code = "SK" -> <<"S", "K">>
      [] code = "SL" -> <<"S", "L">>
      [] code = "SV" -> <<"S", "V">>
      [] code = "TR" -> <<"T", "R">>
      [] code = "UK" -> <<"U", "K">>
      [] code = "ZH" -> <<"Z", "H">>

\* serde name of a TargetLanguageCode variant, with the #[serde(rename)]s.
TargetLanguageCode_wire(code) ==
    CASE code = "AR" -> <<"A", "R">>
      [] code = "BG" -> <<"B", "G">>
      [] code = "CS" -> <<"C", "S">>
      [] code = "DA" -> <<"D", "A">>
      [] code = "DE" -> <<"D", "E">>
      [] code = "EL" -> <<"E", "L">>
      [] code = "EN" -> <<"E", "N">>
      [] code = "EnGb" -> <<"E", "N", "-", "G", "B">>
      [] code = "EnUs" -> <<"E", "N", "-", "U", "S">>
      [] code = "ES" -> <<"E", "S">>
      [] code = "ET" -> <<"E", "T">>
      [] code = "FI" -> <<"F", "I">>
      [] code = "FR" -> <<"F", "R">>
      [] code = "HU" -> <<"H", "U">>
      [] code = "ID" -> <<"I", "D">>
      [] code = "IT" -> <<"I", "T">>
      [] code = "JA" -> <<"J", "A">>
      [] code = "KO" -> <<"K", "O">>
      [] code = "LT" -> <<"L", "T">>
      [] code = "LV" -> <<"L", "V">>
      [] code = "NB" -> <<"N", "B">>
      [] code = "NL" -> <<"N", "L">>
      [] code = "PL" -> <<"P", "L">>
      [] code = "PT" -> <<"P", "T">>
      [] code = "PtBr" -> <<"P", "T", "-", "B", "R">>
      [] code = "PtPt" -> <<"P", "T", "-", "P", "T">>
      [] code = "RO" -> <<"R", "O">>
      [] code = "RU" -> <<"R", "U">>
      [] code = "SK" -> <<"S", "K">>
      [] code = "SL" -> <<"S", "L">>
      [] code = "SV" -> <<"S", "V">>
      [] code = "TR" -> <<"T", "R">>
      [] code = "UK" -> <<"U", "K">>
      [] code = "ZH" -> <<"Z", "H">>

\* SourceLanguageCode::guess_from_str: an Option.
SourceLanguageCode_guess_from_str(s) ==
    CASE s = <<"a", "r">> -> Some("AR")
      [] s = <<"a", "r", "a", "b", "i", "c">> -> Some("AR")
      [] s = <<"b", "g">> -> Some("BG")
      [] s = <<"b", "u", "l", "g", "a", "r", "i", "a", "n">> -> Some("BG")
      [] s = <<"c", "s">> -> Some("CS")
      [] s = <<"c", "z", "e", "c", "h">> -> Some("CS")
      [] s = <<"d", "a">> -> Some("DA")
      [] s = <<"d", "a", "n", "i", "s", "h">> -> Some("DA")
      [] s = <<"d", "e">> -> Some("DE")
      [] s = <<"g", "e", "r", "m", "a", "n">> -> Some("DE")
      [] s = <<"e", "l">> -> Some("EL")
      [] s = <<"g", "r", "e", "e", "k">> -> Some("EL")
      [] s = <<"e", "n">> -> Some("EN")
      [] s = <<"e", "n", "g", "l", "i", "s", "h">> -> Some("EN")
      [] s = <<"e", "s">> -> Some("ES")
      [] s = <<"s", "p", "a", "n", "i", "s", "h">> -> Some("ES")
      [] s = <<"e", "t">> -> Some("ET")
      [] s = <<"e", "s", "t", "o", "n", "i", "a", "n">> -> Some("ET")
      [] s = <<"f", "i">> -> Some("FI")
      [] s = <<"f", "i", "n", "n", "i", "s", "h">> -> Some("FI")
      [] s = <<"f", "r">> -> Some("FR")
      [] s = <<"f", "r", "e", "n", "c", "h">> -> Some("FR")
      [] s = <<"h", "u">> -> Some("HU")
      [] s = <<"h", "u", "n", "g", "a", "r", "i", "a", "n">> -> Some("HU")
      [] s = <<"i", "d">> -> Some("ID")
      [] s = <<"i", "n", "d", "o", "n", "e", "s", "i", "a", "n">> -> Some("ID")
      [] s = <<"i", "t">> -> Some("IT")
      [] s = <<"i", "t", "a", "l", "i", "a", "n">> -> Some("IT")
      [] s = <<"j", "p">> -> Some("JA")
      [] s = <<"j", "a">> -> Some("JA")
      [] s = <<"j", "a", "p", "a", "n", "e", "s", "e">> -> Some("JA")
      [] s = <<"k", "o">> -> Some("KO")
      [] s = <<"k", "o", "r", "e", "a", "n">> -> Some("KO")
      [] s = <<"l", "t">> -> Some("LT")
      [] s = <<"l", "i", "t", "h", "u", "a", "n", "i", "a", "n">> -> Some("LT")
      [] s = <<"l", "v">> -> Some("LV")
      [] s = <<"l", "a", "t", "v", "i", "a", "n">> -> Some("LV")
      [] s = <<"n", "b">> -> Some("NB")
      [] s = <<"n", "o", "r", "w", "e", "g", "i", "a", "n">> -> Some("NB")
      [] s = <<"n", "l">> -> Some("NL")
      [] s = <<"d", "u", "t", "c", "h">> -> Some("NL")
      [] s = <<"p", "l">> -> Some("PL")
      [] s = <<"p", "o", "l", "i", "s", "h">> -> Some("PL")
      [] s = <<"p", "t">> -> Some("PT")
      [] s = <<"p", "o", "r", "t", "u", "g", "u", "e", "s", "e">> -> Some("PT")
      [] s = <<"r", "o">> -> Some("RO")
      [] s = <<"r", "o", "m", "a", "n", "i", "a", "n">> -> Some("RO")
      [] s = <<"r", "u">> -> Some("RU")
      [] s = <<"r", "u", "s", "s", "i", "a", "n">> -> Some("RU")
      [] s = <<"s", "k">> -> Some("SK")
      [] s = <<"s", "l", "o", "v", "a", "k">> -> Some("SK")
      [] s = <<"s", "l">> -> Some("SL")
      [] s = <<"s", "l", "o", "v", "e", "n", "i", "a", "n">> -> Some("SL")
      [] s = <<"s", "v">> -> Some("SV")
      [] s = <<"s", "w", "e", "d", "i", "s", "h">> -> Some("SV")
      [] s = <<"t", "r">> -> Some("TR")
      [] s = <<"t", "u", "r", "k", "i", "s", "h">> -> Some("TR")
      [] s = <<"u", "k">> -> Some("UK")
      [] s = <<"u", "k", "r", "a", "i", "n", "i", "a", "n">> -> Some("UK")
      [] s = <<"z", "h">> -> Some("ZH")
      [] s = <<"c", "h", "i", "n", "e", "s", "e">> -> Some("ZH")
      [] OTHER -> None

\* A target lookup that goes through the source table, which has no regional
\* variants.
TargetLanguageCode_guess_from_source_table(s) ==
    SourceLanguageCode_guess_from_str(s)

\* TargetLanguageCode::guess_from_str.
TargetLanguageCode_guess_from_str(s) ==
    CASE s = <<"a", "r">> -> Some("AR")
      [] s = <<"a", "r", "a", "b", "i", "c">> -> Some("AR")
      [] s = <<"b", "g">> -> Some("BG")
      [] s = <<"b", "u", "l", "g", "a", "r", "i", "a", "n">> -> Some("BG")
      [] s = <<"c", "s">> -> Some("CS")
      [] s = <<"c", "z", "e", "c", "h">> -> Some("CS")
      [] s = <<"d", "a">> -> Some("DA")
      [] s = <<"d", "a", "n", "i", "s", "h">> -> Some("DA")
      [] s = <<"d", "e">> -> Some("DE")
      [] s = <<"g", "e", "r", "m", "a", "n">> -> Some("DE")
      [] s = <<"e", "l">> -> Some("EL")
      [] s = <<"g", "r", "e", "e", "k">> -> Some("EL")
      [] s = <<"e", "n">> -> Some("EN")
      [] s = <<"e", "n", "g", "l", "i", "s", "h">> -> Some("EN")
      [] s = <<"e", "n", "-", "g", "b">> -> Some("EnGb")
      [] s = <<"e", "n", "-", "u", "s">> -> Some("EnUs")
      [] s = <<"e", "s">> -> Some("ES")
      [] s = <<"s", "p", "a", "n", "i", "s", "h">> -> Some("ES")
      [] s = <<"e", "t">> -> Some("ET")
      [] s = <<"e", "s", "t", "o", "n", "i", "a", "n">> -> Some("ET")
      [] s = <<"f", "i">> -> Some("FI")
      [] s = <<"f", "i", "n", "n", "i", "s", "h">> -> Some("FI")
      [] s = <<"f", "r">> -> Some("FR")
      [] s = <<"f", "r", "e", "n", "c", "h">> -> Some("FR")
      [] s = <<"h", "u">> -> Some("HU")
      [] s = <<"h", "u", "n", "g", "a", "r", "i", "a", "n">> -> Some("HU")
      [] s = <<"i", "d">> -> Some("ID")
      [] s = <<"i", "n", "d", "o", "n", "e", "s", "i", "a", "n">> -> Some("ID")
      [] s = <<"i", "t">> -> Some("IT")
      [] s = <<"i", "t", "a", "l", "i", "a", "n">> -> Some("IT")
      [] s = <<"j", "p">> -> Some("JA")
      [] s = <<"j", "a">> -> Some("JA")
      [] s = <<"j", "a", "p", "a", "n", "e", "s", "e">> -> Some("JA")
      [] s = <<"k", "o">> -> Some("KO")
      [] s = <<"k", "o", "r", "e", "a", "n">> -> Some("KO")
      [] s = <<"l", "t">> -> Some("LT")
      [] s = <<"l", "i", "t", "h", "u", "a", "n", "i", "a", "n">> -> Some("LT")
      [] s = <<"l", "v">> -> Some("LV")
      [] s = <<"l", "a", "t", "v", "i", "a", "n">> -> Some("LV")
      [] s = <<"n", "b">> -> Some("NB")
      [] s = <<"n", "o", "r", "w", "e", "g", "i", "a", "n">> -> Some("NB")
      [] s = <<"n", "l">> -> Some("NL")
      [] s = <<"d", "u", "t", "c", "h">> -> Some("NL")
      [] s = <<"p", "l">> -> Some("PL")
      [] s = <<"p", "o", "l", "i", "s", "h">> -> Some("PL")
      [] s = <<"p", "t">> -> Some("PT")
      [] s = <<"p", "o", "r", "t", "u", "g", "u", "e", "s", "e">> -> Some("PT")
      [] s = <<"p", "t", "-", "b", "r">> -> Some("PtBr")
      [] s = <<"p", "t", "-", "p", "t">> -> Some("PtPt")
      [] s = <<"r", "o">> -> Some("RO")
      [] s = <<"r", "o", "m", "a", "n", "i", "a", "n">> -> Some("RO")
      [] s = <<"r", "u">> -> Some("RU")
      [] s = <<"r", "u", "s", "s", "i", "a", "n">> -> Some("RU")
      [] s = <<"s", "k">> -> Some("SK")
      [] s = <<"s", "l", "o", "v", "a", "k">> -> Some("SK")
      [] s = <<"s", "l">> -> Some("SL")
      [] s = <<"s", "l", "o", "v", "e", "n", "i", "a", "n">> -> Some("SL")
      [] s = <<"s", "v">> -> Some("SV")
      [] s = <<"s", "w", "e", "d", "i", "s", "h">> -> Some("SV")
      [] s = <<"t", "r">> -> Some("TR")
      [] s = <<"t", "u", "r", "k", "i", "s", "h">> -> Some("TR")
      [] s = <<"u", "k">> -> Some("UK")
      [] s = <<"u", "k", "r", "a", "i", "n", "i", "a", "n">> -> Some("UK")
      [] s = <<"z", "h">> -> Some("ZH")
      [] s = <<"c", "h", "i", "n", "e", "s", "e">> -> Some("ZH")
      [] OTHER -> None

\* impl Display for SourceLanguageCode.
SourceLanguageCode_fmt(code) ==
    CASE code = "AR" -> <<"A", "r", "a", "b", "i", "c">>
      [] code = "BG" -> <<"B", "u", "l", "g", "a", "r", "i", "a", "n">>
      [] code = "CS" -> <<"C", "z", "e", "c", "h">>
      [] code = "DA" -> <<"D", "a", "n", "i", "s", "h">>
      [] code = "DE" -> <<"G", "e", "r", "m", "a", "n">>
      [] code = "EL" -> <<"G", "r", "e", "e", "k">>
      [] code = "EN" -> <<"E", "n", "g", "l", "i", "s", "h">>
      [] code = "ES" -> <<"S", "p", "a", "n", "i", "s", "h">>
      [] code = "ET" -> <<"E", "s", "t", "o", "n", "i", "a", "n">>
      [] code = "FI" -> <<"F", "i", "n", "n", "i", "s", "h">>
      [] code = "FR" -> <<"F", "r", "e", "n", "c", "h">>
      [] code = "HU" -> <<"H", "u", "n", "g", "a", "r", "i", "a", "n">>
      [] code = "ID" -> <<"I", "n", "d", "o", "n", "e", "s", "i", "a", "n">>
      [] code = "IT" -> <<"I", "t", "a", "l", "i", "a", "n">>
      [] code = "JA" -> <<"J", "a", "p", "a", "n", "e", "s", "e">>
      [] code = "KO" -> <<"K", "o", "r", "e", "a", "n">>
      [] code = "LT" -> <<"L", "i", "t", "h", "u", "a", "n", "i", "a", "n">>
      [] code = "LV" -> <<"L", "a", "t", "v", "i", "a", "n">>
      [] code = "NB" -> <<"N", "o", "r", "w", "e", "g", "i", "a", "n", " ", "(", "B", "o", "k", "m", "å", "l", ")">>
      [] code = "NL" -> <<"D", "u", "t", "c", "h">>
      [] code = "PL" -> <<"P", "o", "l", "i", "s", "h">>
      [] code = "PT" -> <<"P", "o", "r", "t", "u", "g", "u", "e", "s", "e">>
      [] code = "RO" -> <<"R", "o", "m", "a", "n", "i", "a", "n">>
      [] code = "RU" -> <<"R", "u", "s", "s", "i", "a", "n">>
      [] code = "SK" -> <<"S", "l", "o", "v", "a", "k">>
      [] code = "SL" -> <<"S", "l", "o", "v", "e", "n", "i", "a", "n">>
      [] code = "SV" -> <<"S", "w", "e", "d", "i", "s", "h">>
      [] code = "TR" -> <<"T", "u", "r", "k", "i", "s", "h">>
      [] code = "UK" -> <<"U", "k", "r", "a", "i", "n", "i", "a", "n">>
      [] code = "ZH" -> <<"C", "h", "i", "n", "e", "s", "e">>

\* impl Display for TargetLanguageCode.
TargetLanguageCode_fmt(code) ==
    CASE code = "AR" -> <<"A", "r", "a", "b", "i", "c">>
      [] code = "BG" -> <<"B", "u", "l", "g", "a", "r", "i", "a", "n">>
      [] code = "CS" -> <<"C", "z", "e", "c", "h">>
      [] code = "DA" -> <<"D", "a", "n", "i", "s", "h">>
      [] code = "DE" -> <<"G", "e", "r", "m", "a", "n">>
      [] code = "EL" -> <<"G", "r", "e", "e", "k">>
      [] code = "EN" -> <<"E", "n", "g", "l", "i", "s", "h">>
      [] code = "EnGb" -> <<"E", "n", "g", "l", "i", "s", "h", " ", "(", "B", "r", "i", "t", "i", "s", "h", ")">>
      [] code = "EnUs" -> <<"E", "n", "g", "l", "i", "s", "h", " ", "(", "A", "m", "e", "r", "i", "c", "a", "n", ")">>
      [] code = "ES" -> <<"S", "p", "a", "n", "i", "s", "h">>
      [] code = "ET" -> <<"E", "s", "t", "o", "n", "i", "a", "n">>
      [] code = "FI" -> <<"F", "i", "n", "n", "i", "s", "h">>
      [] code = "FR" -> <<"F", "r", "e", "n", "c", "h">>
      [] code = "HU" -> <<"H", "u", "n", "g", "a", "r", "i", "a", "n">>
      [] code = "ID" -> <<"I", "n", "d", "o", "n", "e", "s", "i", "a", "n">>
      [] code = "IT" -> <<"I", "t", "a", "l", "i", "a", "n">>
      [] code = "JA" -> <<"J", "a", "p", "a", "n", "e", "s", "e">>
      [] code = "KO" -> <<"K", "o", "r", "e", "a", "n">>
      [] code = "LT" -> <<"L", "i", "t", "h", "u", "a", "n", "i", "a", "n">>
      [] code = "LV" -> <<"L", "a", "t", "v", "i", "a", "n">>
      [] code = "NB" -> <<"N", "o", "r", "w", "e", "g", "i", "a", "n", " ", "(", "B", "o", "k", "m", "å", "l", ")">>
      [] code = "NL" -> <<"D", "u", "t", "c", "h">>
      [] code = "PL" -> <<"P", "o", "l", "i", "s", "h">>
      [] code = "PT" -> <<"P", "o", "r", "t", "u", "g", "u", "e", "s", "e">>
      [] code = "PtBr" -> <<"P", "o", "r", "t", "u", "g", "u", "e", "s", "e", " ", "(", "B", "r", "a", "z", "i", "l", "i", "a", "n", ")">>
      [] code = "PtPt" -> <<"P", "o", "r", "t", "u", "g", "u", "e", "s", "e", " ", "(", "O", "t", "h", "e", "r", ")">>
      [] code = "RO" -> <<"R", "o", "m", "a", "n", "i", "a", "n">>
      [] code = "RU" -> <<"R", "u", "s", "s", "i", "a", "n">>
      [] code = "SK" -> <<"S", "l", "o", "v", "a", "k">>
      [] code = "SL" -> <<"S", "l", "o", "v", "e", "n", "i", "a", "n">>
      [] code = "SV" -> <<"S", "w", "e", "d", "i", "s", "h">>
      [] code = "TR" -> <<"T", "u", "r", "k", "i", "s", "h">>
      [] code = "UK" -> <<"U", "k", "r", "a", "i", "n", "i", "a", "n">>
      [] code = "ZH" -> <<"C", "h", "i", "n", "e", "s", "e", " ", "(", "s", "i", "m", "p", "l", "i", "f", "i", "e", "d", ")">>

(***************************************************************************)
(* The inputs.                                                             *)
(***************************************************************************)
\* What stands between the arrows of a query: nothing, a token of both tables
\* in upper case and in white space, one in lower case, a token of the target
\* table only, and a token of neither.
Segments ==
    {<<>>, <<" ", "E", "N", " ">>, <<"d", "e">>, <<"e", "n", "-", "g", "b">>, <<"x">>}

RECURSIVE CodeSpecsOf(_)
\* n segments with an arrow between each two.
CodeSpecsOf(n) ==
    IF n = 1 THEN Segments
    ELSE {s \o <<"-", ">">> \o c : s \in Segments, c \in CodeSpecsOf(n - 1)}

\* What follows the first colon: nothing, white space, a word, words with a
\* colon between and white space around, an arrow.
Bodies ==
    {<<>>, <<" ">>, <<"x">>, <<" ", "x", ":", " ", "y", " ">>, <<"-", ">", "x">>}

\* The queries: 1..MaxSegments segments, alone or followed by a colon and a body.
Queries ==
    LET specs == UNION {CodeSpecsOf(n) : n \in 1..MaxSegments}
    IN  specs \cup {c \o <<":">> \o b : c \in specs, b \in Bodies}

\* The items a response body can carry: a code serde knows or one it does
\* not, and one of two texts.
Items ==
    [detected_source_language : {<<"E", "N">>, <<"X", "X">>},
     text : {<<"H", "a", "l", "l", "o">>, <<"W", "e", "l", "t">>}]

RECURSIVE BodiesOf(_)
BodiesOf(n) ==
    IF n = 0 THEN {<<>>}
    ELSE {<<i>> \o b : i \in Items, b \in BodiesOf(n - 1)}

\* What the network does with a request: the send fails ("send_error"), or a
\* body comes back that is no JSON of the schema at all ("garbage"), or one
\* with 0..MaxItems items ("json").
NetOutcomes ==
    {[kind |-> "send_error", body |-> <<>>], [kind |-> "garbage", body |-> <<>>]}
    \cup {[kind |-> "json", body |-> b] : b \in UNION {BodiesOf(n) : n \in 0..MaxItems}}

(***************************************************************************)
(* Configuration.                                                          *)
(***************************************************************************)
\* default_config(): the entries a new DeepL holds.
default_config ==
    [api_key |-> Some(<<>>), use_free_tier |-> Some(TRUE),
     include_query |-> Some(FALSE), include_codes |-> Some(FALSE)]

\* The configurations the host can load: each entry present or absent.
Configs ==
    [api_key : {None, Some(<<>>), Some(<<"k">>)},
     use_free_tier : {None, Some(TRUE), Some(FALSE)},
     include_query : {None, Some(TRUE), Some(FALSE)},
     include_codes : {None, Some(TRUE), Some(FALSE)}]

\* A slip: an absent key falls back to a placeholder and not to the empty string.
api_key_of_placeholder(cfg) == unwrap_or(cfg.api_key, <<"k">>)

\* config.get("DeepL Api Key").and_then(as_string).unwrap_or_default()
api_key_of(cfg) == unwrap_or(cfg.api_key, <<>>)

\* "Use free tier" read with the paid tier as the fallback.
use_free_tier_of_paid_by_default(cfg) == unwrap_or(cfg.use_free_tier, FALSE)

\* config.get("Use free tier").and_then(as_bool).unwrap_or(true)
use_free_tier_of(cfg) == unwrap_or(cfg.use_free_tier, TRUE)

\* A slip: the query is included unless the configuration says otherwise.
include_query_in_clipboard_by_default(cfg) == unwrap_or(cfg.include_query, TRUE)

\* config.get("Include query in clipboard").and_then(as_bool).unwrap_or(false)
include_query_in_clipboard(cfg) == unwrap_or(cfg.include_query, FALSE)

\* config.get("Include language code in clipboard").and_then(as_bool).unwrap_or(false)
include_language_code_in_clipboard(cfg) == unwrap_or(cfg.include_codes, FALSE)

(***************************************************************************)
(* search, stage by stage.                                                 *)
(***************************************************************************)
LogEntry(level, msg) == [level |-> level, msg |-> msg]

\* let mut parts = query.split(':'); parts.next(), trimmed. None when the
\* iterator is empty.
query_codes_of(q) ==
    LET parts == split(q, <<":">>)
    IN  IF parts = <<>> THEN None ELSE Some(trim(parts[1]))

\* A slip: the body is the second part alone, so it ends at the second colon.
rest_of_second_part(q) ==
    LET parts == split(q, <<":">>)
    IN  IF Len(parts) >= 2 THEN trim(parts[2]) ELSE <<>>

\* A slip: the joined parts are not trimmed.
rest_of_untrimmed(q) ==
    LET parts == split(q, <<":">>)
    IN  join(Tail(parts), <<":">>)

\* The remaining parts joined by colons again, trimmed.
rest_of(q) ==
    LET parts == split(q, <<":">>)
    IN  trim(join(Tail(parts), <<":">>))

\* A slip: only two parts are taken, so a third is never seen.
arrow_parts_two(query_codes) ==
    LET parts == split(query_codes, <<"-", ">">>)
    IN  [i \in 1..3 |-> IF i <= 2 /\ i <= Len(parts) THEN Some(parts[i]) ELSE None]

\* let mut parts = query_codes.split("->"); (parts.next(), parts.next(),
\* parts.next()): the first three parts, each an Option.
arrow_parts(query_codes) ==
    LET parts == split(query_codes, <<"-", ">">>)
    IN  [i \in 1..3 |-> IF i <= Len(parts) THEN Some(parts[i]) ELSE None]

\* A slip: the source is looked up with its white space.
source_of_untrimmed(part) == SourceLanguageCode_guess_from_str(to_lowercase(part))

\* SourceLanguageCode::guess_from_str(&source.trim().to_lowercase())
source_of(part) == SourceLanguageCode_guess_from_str(to_lowercase(trim(part)))

\* A slip: the target is looked up as typed, not in lower case.
target_of_as_typed(part) == TargetLanguageCode_guess_from_str(trim(part))

\* A slip: a target that does not resolve falls back to English.
target_of_fallback(part) ==
    LET code == TargetLanguageCode_guess_from_str(to_lowercase(trim(part)))
    IN  IF code = None THEN Some("EN") ELSE code

\* TargetLanguageCode::guess_from_str(&target.trim().to_lowercase())
target_of(part) == TargetLanguageCode_guess_from_str(to_lowercase(trim(part)))

\* A slip: a malformed query is logged at trace.
Warn_at_trace(msg) == [ok |-> FALSE, log |-> LogEntry("trace", msg)]

\* self.logger.warn(msg); return res.into()
Warn(msg) == [ok |-> FALSE, log |-> LogEntry("warn", msg)]

\* The match on the three parts: the TranslateRequest of the arm, or the
\* warning the arm logs before it returns.
TranslateRequest(query_codes, rest) ==
    LET parts == arrow_parts(query_codes)
    IN  IF parts[3] # None THEN
            Warn("Too many arrows in the query")
        ELSE IF parts[1] # None /\ parts[2] # None THEN
            LET source == source_of(unwrap(parts[1]))
                target == target_of(unwrap(parts[2]))
            IN  IF source = None THEN Warn("Invalid source language code")
                ELSE IF target = None THEN Warn("Invalid target language code")
                ELSE [ok |-> TRUE,
                      request |-> [text |-> <<rest>>, target_lang |-> unwrap(target),
                                   source_lang |-> Some(unwrap(source))]]
        ELSE IF parts[1] # None /\ parts[2] = None THEN
            LET target == target_of(unwrap(parts[1]))
            IN  IF target = None THEN Warn("Invalid target language code")
                ELSE [ok |-> TRUE,
                      request |-> [text |-> <<rest>>, target_lang |-> unwrap(target),
                                   source_lang |-> None]]
        ELSE
            Warn("No target language code")

FreeUrl == "https://api-free.deepl.com/v2/translate"
PaidUrl == "https://api.deepl.com/v2/translate"

\* The JSON body of a TranslateRequest: source_lang is skipped when None.
Serialize(req) ==
    IF req.source_lang = None
    THEN [text |-> req.text, target_lang |-> TargetLanguageCode_wire(req.target_lang)]
    ELSE [text |-> req.text, target_lang |-> TargetLanguageCode_wire(req.target_lang),
          source_lang |-> SourceLanguageCode_wire(unwrap(req.source_lang))]

\* The POST search issues for a request.
HttpRequest(cfg, req) ==
    [url |-> IF use_free_tier_of(cfg) THEN FreeUrl ELSE PaidUrl,
     authorization |-> <<"D", "e", "e", "p", "L", "-", "A", "u", "t", "h", "-",
                         "K", "e", "y", " ">> \o api_key_of(cfg),
     json |-> Serialize(req)]

\* Deserialize for SourceLanguageCode: the variant of a serde name, or None.
SourceLanguageCode_deserialize(w) ==
    IF \E c \in SourceLanguageCode : SourceLanguageCode_wire(c) = w
    THEN Some(CHOOSE c \in SourceLanguageCode : SourceLanguageCode_wire(c) = w)
    ELSE None

\* response.json::<TranslateResponse>(): the translations, or None when the
\* body does not decode.
Decode(net) ==
    LET body == net.body
    IN
    IF net.kind # "json" THEN None
    ELSE IF \E i \in 1..Len(body) :
                SourceLanguageCode_deserialize(body[i].detected_source_language) = None
         THEN None
         ELSE Some([i \in 1..Len(body) |->
                  [detected_source_language |->
                       unwrap(SourceLanguageCode_deserialize(body[i].detected_source_language)),
                   text |-> body[i].text]])

\* The clipboard text of one translation.
clipboard_text(req, rest, translation, include_query, include_codes) ==
    LET query_str ==
            IF include_query THEN
                IF include_codes THEN
                    LET source_lang ==
                            unwrap_or(req.source_lang, translation.detected_source_language)
                    IN  SourceLanguageCode_fmt(source_lang) \o <<":", " ">> \o rest \o <<"\n">>
                ELSE rest \o <<"\n">>
            ELSE <<>>
        translated_str ==
            IF include_codes
            THEN TargetLanguageCode_fmt(req.target_lang) \o <<":", " ">> \o translation.text
            ELSE translation.text
    IN  query_str \o translated_str

\* SearchResult::new(&translation.text).set_extra_info(&clipboard_text)
SearchResult(title, extra_info) == [title |-> title, extra_info |-> extra_info]

\* A loop body run for the first translation only.
Results_first_translation(cfg, req, rest, translations) ==
    IF translations = <<>> THEN <<>>
    ELSE <<SearchResult(translations[1].text,
                        clipboard_text(req, rest, translations[1],
                                       include_query_in_clipboard(cfg),
                                       include_language_code_in_clipboard(cfg)))>>

\* The for loop over response.translations.
Results(cfg, req, rest, translations) ==
    [i \in 1..Len(translations) |->
        SearchResult(translations[i].text,
                     clipboard_text(req, rest, translations[i],
                                    include_query_in_clipboard(cfg),
                                    include_language_code_in_clipboard(cfg)))]

\* What one run of search leaves behind.
Outcome(r, l, rq, s, rp) ==
    [res |-> r, log |-> l, request |-> rq, sent |-> s, reply |-> rp]

\* The locals of search that the query alone decides, for every query of the
\* model, worked out once: query_codes, rest and the outcome of the match.
Locals ==
    [q \in Queries |->
        [query_codes |-> query_codes_of(q),
         rest |-> rest_of(q),
         parsed |-> TranslateRequest(unwrap(query_codes_of(q)), rest_of(q))]]

\* search up to the point where the request goes out: every early return of
\* the function in its order, or the request built and the POST issued.
Prepare(cfg, q) ==
    LET api_key == api_key_of(cfg)
        query_codes == Locals[q].query_codes
        rest == Locals[q].rest
        parsed == Locals[q].parsed
    IN  IF api_key = <<>> THEN
            Outcome(<<>>, <<LogEntry("error", "No API key was provided")>>, None, <<>>, None)
        ELSE IF query_codes = None THEN
            Outcome(<<>>, <<>>, None, <<>>, None)
        ELSE IF unwrap(query_codes) = <<>> THEN
            Outcome(<<>>, <<>>, None, <<>>, None)
        ELSE IF rest = <<>> THEN
            Outcome(<<>>, <<LogEntry("trace", "No query was provided")>>, None, <<>>, None)
        ELSE IF ~parsed.ok THEN
            Outcome(<<>>, <<parsed.log>>, None, <<>>, None)
        ELSE
            Outcome(<<>>, <<>>, Some(parsed.request),
                    <<HttpRequest(cfg, parsed.request)>>, None)

\* search from send() on, net being what the network does with the request.
Complete(cfg, q, sending, net) ==
    LET translations == Decode(net)
        failed(msg) ==
            Outcome(<<>>, <<LogEntry("error", msg)>>, sending.request, sending.sent,
                    Some(net))
    IN  IF net.kind = "send_error" THEN failed("Failed to send request")
        ELSE IF translations = None THEN failed("Failed to parse response")
        ELSE Outcome(Results(cfg, unwrap(sending.request), Locals[q].rest,
                             unwrap(translations)),
                     <<>>, sending.request, sending.sent, Some(net))

(***************************************************************************)
(* The state machine.                                                      *)
(***************************************************************************)
\* DeepL::new: no search yet.
Init ==
    /\ config = default_config
    /\ loaded = FALSE
    /\ query = <<>>
    /\ returned = FALSE
    /\ res = <<>>
    /\ log = <<>>
    /\ request = None
    /\ sent = <<>>
    /\ reply = None
    /\ token = <<>>
    /\ guessed = None

\* Searchable::lazy_load_config: the host hands over the stored configuration.
lazy_load_config ==
    /\ ~loaded
    /\ ~returned
    /\ \E c \in Configs : config' = c
    /\ loaded' = TRUE
    /\ UNCHANGED <<query, returned, res, log, request, sent, reply, token, guessed>>

\* Searchable::search(query): the host passes a query, and the network answers
\* the request if one goes out.
search ==
    /\ ~returned
    /\ \E q \in Queries :
          LET sending == Prepare(config, q)
              Return(o) ==
                  /\ query' = q
                  /\ res' = o.res
                  /\ log' = o.log
                  /\ request' = o.request
                  /\ sent' = o.sent
                  /\ reply' = o.reply
          IN  IF sending.sent = <<>>
              THEN Return(sending)
              ELSE \E net \in NetOutcomes : Return(Complete(config, q, sending, net))
    /\ returned' = TRUE
    /\ UNCHANGED <<config, loaded, token, guessed>>

Next == lazy_load_config \/ search

Spec == Init /\ [][Next]_vars

(***************************************************************************)
(* TargetLanguageCode::guess_from_str on its own: a second specification   *)
(* calls the function once on a string of TableInputs.                     *)
(***************************************************************************)
\* The string literals of the match arms of TargetLanguageCode::guess_from_str.
TargetTokens ==
    {
     <<"a", "r">>,
     <<"a", "r", "a", "b", "i", "c">>,
     <<"b", "g">>,
     <<"b", "u", "l", "g", "a", "r", "i", "a", "n">>,
     <<"c", "s">>,
     <<"c", "z", "e", "c", "h">>,
     <<"d", "a">>,
     <<"d", "a", "n", "i", "s", "h">>,
     <<"d", "e">>,
     <<"g", "e", "r", "m", "a", "n">>,
     <<"e", "l">>,
     <<"g", "r", "e", "e", "k">>,
     <<"e", "n">>,
     <<"e", "n", "g", "l", "i", "s", "h">>,
     <<"e", "n", "-", "g", "b">>,
     <<"e", "n", "-", "u", "s">>,
     <<"e", "s">>,
     <<"s", "p", "a", "n", "i", "s", "h">>,
     <<"e", "t">>,
     <<"e", "s", "t", "o", "n", "i", "a", "n">>,
     <<"f", "i">>,
     <<"f", "i", "n", "n", "i", "s", "h">>,
     <<"f", "r">>,
     <<"f", "r", "e", "n", "c", "h">>,
     <<"h", "u">>,
     <<"h", "u", "n", "g", "a", "r", "i", "a", "n">>,
     <<"i", "d">>,
     <<"i", "n", "d", "o", "n", "e", "s", "i", "a", "n">>,
     <<"i", "t">>,
     <<"i", "t", "a", "l", "i", "a", "n">>,
     <<"j", "p">>,
     <<"j", "a">>,
     <<"j", "a", "p", "a", "n", "e", "s", "e">>,
     <<"k", "o">>,
     <<"k", "o", "r", "e", "a", "n">>,
     <<"l", "t">>,
     <<"l", "i", "t", "h", "u", "a", "n", "i", "a", "n">>,
     <<"l", "v">>,
     <<"l", "a", "t", "v", "i", "a", "n">>,
     <<"n", "b">>,
     <<"n", "o", "r", "w", "e", "g", "i", "a", "n">>,
     <<"n", "l">>,
     <<"d", "u", "t", "c", "h">>,
     <<"p", "l">>,
     <<"p", "o", "l", "i", "s", "h">>,
     <<"p", "t">>,
     <<"p", "o", "r", "t", "u", "g", "u", "e", "s", "e">>,
     <<"p", "t", "-", "b", "r">>,
     <<"p", "t", "-", "p", "t">>,
     <<"r", "o">>,
     <<"r", "o", "m", "a", "n", "i", "a", "n">>,
     <<"r", "u">>,
     <<"r", "u", "s", "s", "i", "a", "n">>,
     <<"s", "k">>,
     <<"s", "l", "o", "v", "a", "k">>,
     <<"s", "l">>,
     <<"s", "l", "o", "v", "e", "n", "i", "a", "n">>,
     <<"s", "v">>,
     <<"s", "w", "e", "d", "i", "s", "h">>,
     <<"t", "r">>,
     <<"t", "u", "r", "k", "i", "s", "h">>,
     <<"u", "k">>,
     <<"u", "k", "r", "a", "i", "n", "i", "a", "n">>,
     <<"z", "h">>,
     <<"c", "h", "i", "n", "e", "s", "e">>
    }

\* The strings the call is given: every literal of the match, and beside each
\* literal the same with a blank after it, with a blank before it, with an
\* "x" after it, without its last character and without its first; the empty
\* string; and a few spellings a user may try.
TableInputs ==
    TargetTokens
        \cup {t \o <<" ">> : t \in TargetTokens}
        \cup {<<" ">> \o t : t \in TargetTokens}
        \cup {t \o <<"x">> : t \in TargetTokens}
        \cup {SubSeq(t, 1, Len(t) - 1) : t \in TargetTokens}
        \cup {SubSeq(t, 2, Len(t)) : t \in TargetTokens}
        \cup {<<>>,
              <<"E", "N">>, <<"E", "n">>, <<"P", "T">>,
              <<"e", "n", "-", "G", "B">>, <<"E", "N", "-", "G", "B">>,
              <<"e", "n", "_", "g", "b">>, <<"e", "n", "g", "b">>,
              <<"e", "n", "-", "a", "u">>, <<"e", "n", "-">>,
              <<"p", "t", "_", "b", "r">>, <<"p", "t", "-", "B", "R">>,
              <<"b", "r">>, <<"g", "b">>, <<"u", "s">>,
              <<"z", "h", "-", "h", "a", "n", "s">>}

\* Before the call: the plugin as DeepL::new leaves it, and the argument.
TableInit ==
    /\ config = default_config
    /\ loaded = FALSE
    /\ query = <<>>
    /\ returned = FALSE
    /\ res = <<>>
    /\ log = <<>>
    /\ request = None
    /\ sent = <<>>
    /\ reply = None
    /\ token \in TableInputs
    /\ guessed = None

\* TargetLanguageCode::guess_from_str(token): the call and its return value.
guess_from_str ==
    /\ guessed = None
    /\ guessed' = Some(TargetLanguageCode_guess_from_str(token))
    /\ UNCHANGED <<config, loaded, query, returned, res, log, request, sent,
                   reply, token>>

TableNext == guess_from_str

TableSpec == TableInit /\ [][TableNext]_vars

(***************************************************************************)
(* What the properties speak of, stated on the query itself and not through *)
(* the operators of search.                                                *)
(***************************************************************************)
WhiteSpace == {" ", "\t", "\n", "\r"}

\* s without the white space at its two ends.
Stripped(s) ==
    LET ix == {i \in 1..Len(s) : s[i] \notin WhiteSpace}
        lo == CHOOSE i \in ix : \A j \in ix : i <= j
        hi == CHOOSE i \in ix : \A j \in ix : j <= i
    IN  IF ix = {} THEN <<>> ELSE SubSeq(s, lo, hi)

FoldChar(c) ==
      CASE c = "A" -> "a"
        [] c = "B" -> "b"
        [] c = "C" -> "c"
        [] c = "D" -> "d"
        [] c = "E" -> "e"
        [] c = "F" -> "f"
        [] c = "G" -> "g"
        [] c = "H" -> "h"
        [] c = "I" -> "i"
        [] c = "J" -> "j"
        [] c = "K" -> "k"
        [] c = "L" -> "l"
        [] c = "M" -> "m"
        [] c = "N" -> "n"
        [] c = "O" -> "o"
        [] c = "P" -> "p"
        [] c = "Q" -> "q"
        [] c = "R" -> "r"
        [] c = "S" -> "s"
        [] c = "T" -> "t"
        [] c = "U" -> "u"
        [] c = "V" -> "v"
        [] c = "W" -> "w"
        [] c = "X" -> "x"
        [] c = "Y" -> "y"
        [] c = "Z" -> "z"
        [] OTHER -> c

\* The token a segment stands for: stripped, in lower case.
Token(s) == LET u == Stripped(s) IN [i \in 1..Len(u) |-> FoldChar(u[i])]

\* The places of s where an arrow starts; two arrows cannot overlap.
ArrowsAt(s) == {i \in 1..(Len(s) - 1) : s[i] = "-" /\ s[i + 1] = ">"}

\* How the specification reads a query: whether it has a colon; the code
\* spec, which is what stands before the first colon, stripped (the whole
\* query when there is no colon); the body, which is what stands after the
\* first colon, stripped; the number of arrows of the code spec; the code its
\* left side names in the source table when it has one arrow; the code that
\* its right side, or all of it when it has no arrow, names in the target
\* table.
Reading(q) ==
    LET colons == {i \in 1..Len(q) : q[i] = ":"}
        first == CHOOSE i \in colons : \A j \in colons : i <= j
        spec == Stripped(IF colons = {} THEN q ELSE SubSeq(q, 1, first - 1))
        at == ArrowsAt(spec)
        arrow == CHOOSE i \in at : TRUE
    IN  [colon |-> colons # {},
         codeSpec |-> spec,
         body |-> IF colons = {} THEN <<>> ELSE Stripped(SubSeq(q, first + 1, Len(q))),
         arrows |-> Cardinality(at),
         source |->
             IF Cardinality(at) = 1
             THEN SourceLanguageCode_guess_from_str(Token(SubSeq(spec, 1, arrow - 1)))
             ELSE None,
         target |->
             IF Cardinality(at) = 1
             THEN TargetLanguageCode_guess_from_str(Token(SubSeq(spec, arrow + 2, Len(spec))))
             ELSE IF at = {} THEN TargetLanguageCode_guess_from_str(Token(spec))
             ELSE None]

\* The reading of every query, worked out once.
Readings == [q \in Queries |-> Reading(q)]

HasColon(q) == Readings[q].colon
CodeSpec(q) == Readings[q].codeSpec
Body(q) == Readings[q].body
Arrows(q) == Readings[q].arrows
NamedSource(q) == Readings[q].source
NamedTarget(q) == Readings[q].target

KeyPresent == config.api_key # None /\ config.api_key # Some(<<>>)

\* The ways a query fails to parse.
NoColon(q) == ~HasColon(q)
EmptyCodeSpec(q) == HasColon(q) /\ CodeSpec(q) = <<>>
EmptyBody(q) == HasColon(q) /\ CodeSpec(q) # <<>> /\ Body(q) = <<>>
WithBody(q) == HasColon(q) /\ CodeSpec(q) # <<>> /\ Body(q) # <<>>
TooManyArrows(q) == WithBody(q) /\ Arrows(q) >= 2
InvalidSourceCode(q) == WithBody(q) /\ Arrows(q) = 1 /\ NamedSource(q) = None
InvalidTargetCode(q) ==
    /\ WithBody(q)
    /\ Arrows(q) = 0 \/ (Arrows(q) = 1 /\ NamedSource(q) # None)
    /\ NamedTarget(q) = None
ParseFailure(q) ==
    \/ NoColon(q) \/ EmptyCodeSpec(q) \/ EmptyBody(q)
    \/ TooManyArrows(q) \/ InvalidSourceCode(q) \/ InvalidTargetCode(q)

\* The codes serde knows as a detected source language.
SourceWireCodes == {SourceLanguageCode_wire(c) : c \in SourceLanguageCode}

\* The ways the exchange with the service fails.
SendFailure == reply # None /\ unwrap(reply).kind = "send_error"
DecodeFailure ==
    /\ reply # None
    /\ \/ unwrap(reply).kind = "garbage"
       \/ /\ unwrap(reply).kind = "json"
          /\ \E i \in 1..Len(unwrap(reply).body) :
                unwrap(reply).body[i].detected_source_language \notin SourceWireCodes

Warned(msg) == log = <<LogEntry("warn", msg)>>

(***************************************************************************)
(* The properties.                                                         *)
(***************************************************************************)
\* C1: with the API key missing or empty, search on any query, well-formed or
\* not, returns no result, issues no HTTP request and does nothing but log
\* the missing key: the key is checked before the query is looked at.
C1_NoKeyNoRequest ==
    (returned /\ ~KeyPresent) =>
        /\ res = <<>>
        /\ sent = <<>>
        /\ request = None
        /\ log = <<LogEntry("error", "No API key was provided")>>

\* A search without a key on a query that would parse, and one on a query
\* that would not.
C1_Witness ==
    /\ returned /\ loaded /\ config.api_key = None
    /\ query = <<"d", "e", ":", "x">>
    /\ res = <<>> /\ sent = <<>>

\* C2: every failure of search (missing key, any parse failure, send failure,
\* decode failure) returns the empty result sequence, and a missing key or a
\* parse failure issues no HTTP request.
C2_FailureReturnsEmpty ==
    returned =>
        /\ (~KeyPresent \/ ParseFailure(query)) => (res = <<>> /\ sent = <<>>)
        /\ (SendFailure \/ DecodeFailure) => res = <<>>

\* A search with a key on "x:x", whose target does not resolve.
C2_Witness ==
    /\ returned /\ KeyPresent
    /\ query = <<"x", ":", "x">>
    /\ InvalidTargetCode(query)
    /\ res = <<>> /\ sent = <<>>

\* The wire code of the target of q.
TargetWire(q) == TargetLanguageCode_wire(unwrap(NamedTarget(q)))

\* The wire code of the source of result i: that of the explicit source of q,
\* or else the detected source of item i of the response.
SourceWire(q, i) ==
    IF Arrows(q) = 1
    THEN SourceLanguageCode_wire(unwrap(NamedSource(q)))
    ELSE unwrap(reply).body[i].detected_source_language

\* The translated text of item i of the response.
Translated(i) == unwrap(reply).body[i].text

\* C3: with both toggles true, the clipboard text of each result is
\* "<S>: <body>\n<T>: <translated>", S and T being the wire codes (such as
\* "EN" and "DE") of the source and of the target.
C3_ClipboardWireCodes ==
    (returned /\ config.include_query = Some(TRUE) /\ config.include_codes = Some(TRUE)) =>
        \A i \in 1..Len(res) :
            res[i].extra_info =
                SourceWire(query, i) \o <<":", " ">> \o Body(query) \o <<"\n">>
                \o TargetWire(query) \o <<":", " ">> \o Translated(i)

\* C4: with include_codes false or absent, the clipboard text of each result
\* carries no language code: it is the translated text, preceded by the body
\* and a newline exactly when include_query is true (absent counts as false).
C4_ClipboardWithoutCodes ==
    (returned /\ config.include_codes \in {None, Some(FALSE)}) =>
        \A i \in 1..Len(res) :
            res[i].extra_info =
                (IF config.include_query = Some(TRUE)
                 THEN Body(query) \o <<"\n">> ELSE <<>>)
                \o Translated(i)

\* A result of "de:x" with include_query true and include_codes absent.
C4_Witness ==
    /\ returned
    /\ config.include_codes = None /\ config.include_query = Some(TRUE)
    /\ query = <<"d", "e", ":", "x">>
    /\ Len(res) = 1
    /\ res[1].extra_info = <<"x", "\n", "H", "a", "l", "l", "o">>

\* C5: a query with a body whose code spec has no arrow and is, stripped and
\* in lower case, a token of the target table yields the request with the
\* stripped body as its one text, the token's code as target and no source.
C5_TargetOnlyRequest ==
    (/\ returned /\ KeyPresent /\ WithBody(query)
     /\ Arrows(query) = 0 /\ NamedTarget(query) # None) =>
        request = Some([text |-> <<Body(query)>>,
                        target_lang |-> unwrap(NamedTarget(query)),
                        source_lang |-> None])

\* " EN :x", upper case in white space, yields text ["x"], target EN, no source.
C5_Witness ==
    /\ returned /\ KeyPresent
    /\ query = <<" ", "E", "N", " ", ":", "x">>
    /\ request = Some([text |-> << <<"x">> >>, target_lang |-> "EN", source_lang |-> None])

\* C6: a query with a body whose code spec has exactly one arrow resolves the
\* left side in the source table and the right side in the target table: an
\* unresolved left side is an invalid source code, else an unresolved right
\* side is an invalid target code, both without a request built or sent;
\* else the request carries the body, the target and the source.
C6_SourceAndTargetRequest ==
    (returned /\ KeyPresent /\ WithBody(query) /\ Arrows(query) = 1) =>
        LET source == NamedSource(query)
            target == NamedTarget(query)
        IN  IF source = None THEN
                Warned("Invalid source language code") /\ request = None /\ sent = <<>>
            ELSE IF target = None THEN
                Warned("Invalid target language code") /\ request = None /\ sent = <<>>
            ELSE
                /\ request = Some([text |-> <<Body(query)>>, target_lang |-> unwrap(target),
                                   source_lang |-> source])
                /\ Len(sent) = 1

\* "en-gb->de:x": a token of the target table alone is no source.
C6_Witness ==
    /\ returned /\ KeyPresent
    /\ query = <<"e", "n", "-", "g", "b", "-", ">", "d", "e", ":", "x">>
    /\ Warned("Invalid source language code")
    /\ request = None /\ sent = <<>>

\* C7: a query with a body whose code spec has more than one arrow fails with
\* too many arrows, whatever its segments are: no request, no result.
C7_TooManyArrows ==
    (/\ returned /\ KeyPresent /\ HasColon(query) /\ Body(query) # <<>>
     /\ Arrows(query) >= 2) =>
        /\ Warned("Too many arrows in the query")
        /\ request = None /\ sent = <<>> /\ res = <<>>

\* "de->de->de:x": three segments that all resolve.
C7_Witness ==
    /\ returned /\ KeyPresent
    /\ query = <<"d", "e", "-", ">", "d", "e", "-", ">", "d", "e", ":", "x">>
    /\ Warned("Too many arrows in the query")
    /\ request = None

\* C8: the query is split at its first colon only. The body of the request
\* and of the clipboard text is what follows the first colon, stripped, later
\* colons included; and only the arrows before the first colon count.
C8_FirstColonSplits ==
    (returned /\ KeyPresent /\ HasColon(query)) =>
        /\ request # None => unwrap(request).text = <<Body(query)>>
        /\ \A i \in 1..Len(sent) : sent[i].json.text = <<Body(query)>>
        /\ config.include_query = Some(TRUE) =>
              \A i \in 1..Len(res) :
                 LET line == Body(query) \o <<"\n">>
                     text == res[i].extra_info
                 IN  \E k \in 0..Len(text) :
                        /\ SubSeq(text, k + 1, k + Len(line)) = line
                        /\ config.include_codes # Some(TRUE) => k = 0
        /\ WithBody(query) =>
              (Warned("Too many arrows in the query") <=> Arrows(query) >= 2)

\* "de: x: y ": the body keeps its colon.
C8_Witness ==
    /\ returned /\ KeyPresent
    /\ query = <<"d", "e", ":", " ", "x", ":", " ", "y", " ">>
    /\ request # None
    /\ unwrap(request).text = << <<"x", ":", " ", "y">> >>
    /\ Len(sent) = 1

\* What search logs, by the way it fails, as the specification has it.
SeverityAsSpecified ==
    /\ ~KeyPresent => Len(log) = 1 /\ log[1].level = "error"
    /\ (KeyPresent /\ (\/ NoColon(query) \/ EmptyCodeSpec(query) \/ TooManyArrows(query)
                       \/ InvalidSourceCode(query) \/ InvalidTargetCode(query))) =>
            Len(log) = 1 /\ log[1].level = "warn"
    /\ (KeyPresent /\ EmptyBody(query)) => Len(log) = 1 /\ log[1].level = "trace"
    /\ (SendFailure \/ DecodeFailure) => Len(log) = 1 /\ log[1].level = "error"

\* C9, as stated: every failing search logs one entry, at error for a missing
\* key, a send failure and a decode failure, at warning for a malformed
\* query (no colon, empty code spec, too many arrows, unresolvable code), at
\* trace for an empty body.
C9_EveryFailureLogged == returned => SeverityAsSpecified

\* C9, amended: a search whose code spec is empty (the whole query, when it
\* has no colon) returns without logging; a query with no colon and a
\* non-empty code spec is logged at trace like an empty body; every other
\* failure logs one entry at the severity stated.
C9_FailureLogging ==
    returned =>
        /\ ~KeyPresent => Len(log) = 1 /\ log[1].level = "error"
        /\ (KeyPresent /\ CodeSpec(query) = <<>>) => log = <<>>
        /\ (KeyPresent /\ CodeSpec(query) # <<>> /\ Body(query) = <<>>) =>
                Len(log) = 1 /\ log[1].level = "trace"
        /\ (KeyPresent /\ (\/ TooManyArrows(query) \/ InvalidSourceCode(query)
                           \/ InvalidTargetCode(query))) =>
                Len(log) = 1 /\ log[1].level = "warn"
        /\ (SendFailure \/ DecodeFailure) => Len(log) = 1 /\ log[1].level = "error"

\* "x->de:x": a malformed query, logged as a warning.
C9_Witness ==
    /\ returned /\ KeyPresent
    /\ query = <<"x", "-", ">", "d", "e", ":", "x">>
    /\ res = <<>>
    /\ Len(log) = 1 /\ log[1].level = "warn"

\* C10: a request that search builds or sends has exactly one text, the
\* stripped body, which is not empty; with an empty body none is built.
C10_OneNonEmptyText ==
    returned =>
        /\ request # None =>
              /\ Len(unwrap(request).text) = 1
              /\ unwrap(request).text[1] # <<>>
              /\ unwrap(request).text[1] = Body(query)
        /\ \A i \in 1..Len(sent) :
              sent[i].json.text = <<Body(query)>> /\ Body(query) # <<>>
        /\ Body(query) = <<>> => (request = None /\ sent = <<>>)

\* "de->de: x: y ": the one text is the body without the white space around.
C10_Witness ==
    /\ returned
    /\ query = <<"d", "e", "-", ">", "d", "e", ":", " ", "x", ":", " ", "y", " ">>
    /\ request # None
    /\ Len(unwrap(request).text) = 1
    /\ Len(sent) = 1 /\ sent[1].json.text = << <<"x", ":", " ", "y">> >>

\* The wire name of the code a direct call of the target table came back with.
WireOfGuess == TargetLanguageCode_wire(unwrap(unwrap(guessed)))

\* C11: a direct call of the target table resolves "en" and "english" to EN,
\* "en-gb" to EN-GB, "en-us" to EN-US, "pt" and "portuguese" to PT, "pt-br" to
\* PT-BR and "pt-pt" to PT-PT (six codes, each with its own wire name, so the
\* unqualified tokens never yield a regional code), and every string that is
\* not a literal of the closed set resolves to None.
C11_RegionalCodesDistinct ==
    guessed # None =>
        /\ token \in {<<"e", "n">>, <<"e", "n", "g", "l", "i", "s", "h">>} =>
              unwrap(guessed) = Some("EN") /\ WireOfGuess = <<"E", "N">>
        /\ token = <<"e", "n", "-", "g", "b">> =>
              unwrap(guessed) = Some("EnGb")
                  /\ WireOfGuess = <<"E", "N", "-", "G", "B">>
        /\ token = <<"e", "n", "-", "u", "s">> =>
              unwrap(guessed) = Some("EnUs")
                  /\ WireOfGuess = <<"E", "N", "-", "U", "S">>
        /\ token \in {<<"p", "t">>,
                      <<"p", "o", "r", "t", "u", "g", "u", "e", "s", "e">>} =>
              unwrap(guessed) = Some("PT") /\ WireOfGuess = <<"P", "T">>
        /\ token = <<"p", "t", "-", "b", "r">> =>
              unwrap(guessed) = Some("PtBr")
                  /\ WireOfGuess = <<"P", "T", "-", "B", "R">>
        /\ token = <<"p", "t", "-", "p", "t">> =>
              unwrap(guessed) = Some("PtPt")
                  /\ WireOfGuess = <<"P", "T", "-", "P", "T">>
        /\ token \notin TargetTokens => unwrap(guessed) = None
        /\ token \in TargetTokens => unwrap(guessed) # None

\* "pt-br" was looked up and came back as the Brazilian variant.
C11_Witness ==
    /\ token = <<"p", "t", "-", "b", "r">>
    /\ guessed = Some(Some("PtBr"))

\* C12: when a request went out and the response decodes, search returns one
\* result per item of the response, in the order of the response, and the
\* title of each result is the translated text of its item as it came,
\* whatever the two clipboard toggles are; a response of no item gives no
\* result.
C12_OneResultPerItem ==
    (returned /\ reply # None /\ ~SendFailure /\ ~DecodeFailure) =>
        /\ Len(res) = Len(unwrap(reply).body)
        /\ \A i \in 1..Len(unwrap(reply).body) : res[i].title = Translated(i)
        /\ unwrap(reply).body = <<>> => res = <<>>

\* Two items with different texts, both toggles on: two results, "Hallo" then
\* "Welt", while the clipboard texts carry more than the titles.
C12_Witness ==
    /\ returned /\ reply # None /\ ~SendFailure /\ ~DecodeFailure
    /\ config.include_query = Some(TRUE) /\ config.include_codes = Some(TRUE)
    /\ Len(unwrap(reply).body) = 2
    /\ Len(res) = 2
    /\ res[1].title = <<"H", "a", "l", "l", "o">>
    /\ res[2].title = <<"W", "e", "l", "t">>
    /\ res[1].extra_info # res[1].title

\* C13: a search issues at most one HTTP request; a request goes out only when
\* the API key is present and the whole query has parsed; after a send
\* failure or a decode failure there is still that one request and no other,
\* and no result; and the request goes to the free-tier URL exactly when
\* "Use free tier" is true or has no entry, to the paid URL otherwise.
C13_AtMostOneRequest ==
    /\ Len(sent) <= 1
    /\ sent # <<>> => (returned /\ KeyPresent /\ ~ParseFailure(query))
    /\ reply # None => Len(sent) = 1
    /\ (SendFailure \/ DecodeFailure) => (Len(sent) = 1 /\ res = <<>>)
    /\ \A i \in 1..Len(sent) :
          /\ config.use_free_tier \in {None, Some(TRUE)} =>
                sent[i].url = "https://api-free.deepl.com/v2/translate"
          /\ config.use_free_tier = Some(FALSE) =>
                sent[i].url = "https://api.deepl.com/v2/translate"

\* "Use free tier" is false and the send fails: one request, to the paid URL.
C13_Witness ==
    /\ returned /\ SendFailure
    /\ config.use_free_tier = Some(FALSE)
    /\ Len(sent) = 1
    /\ sent[1].url = "https://api.deepl.com/v2/translate"
    /\ res = <<>>

====
